---- MODULE Spec2Model ----
(***************************************************************************)
(* Model of PolyjuiceGenerator/PolyjuiceGenerator.py: the PolyjuiceGenerator *)
(* class (__init__, generate_counterfactuals, export_to_csv, pipeline) and  *)
(* the command-line entry (parse_input, main).                              *)
(*                                                                         *)
(* Python's None is the empty tuple and a value v that is not None is the   *)
(* one-element tuple <<v>>, so that "x is None" is x = None.                *)
(***************************************************************************)
EXTENDS Integers, Sequences, FiniteSets, TLC

\* ---------------------------------------------------------------- bounds
MaxRows == 2    \* rows of the source table
MaxCands == 2   \* candidates one model call returns

\* ----------------------------------------------------------- environment
None == <<>>
Some(v) == <<v>>
Val(o) == o[1]

\* the files that exist when the process starts
ExistingFiles == {"data.csv"}
\* the columns of the table in data.csv
TableColumns == {"text"}
\* the cell values of the source column
Words == {"great", "rain"}
\* the texts the model produces
Edits == {"terrible", "sun"}

PathArgs == {"data.csv", "missing.csv"}
ColArgs == {"", "text", "label"}
DestArgs == {"out.csv"}

RECURSIVE SeqsUpTo(_, _)
SeqsUpTo(S, n) ==
    IF n = 0 THEN {<<>>}
    ELSE LET shorter == SeqsUpTo(S, n - 1)
         IN shorter \cup {Append(q, x) : q \in {r \in shorter : Len(r) = n - 1}, x \in S}

Tables == SeqsUpTo(Words, MaxRows)
Candidates == SeqsUpTo(Edits, MaxCands)

\* ----------------------------------------------------------------- state
VARIABLES
    argv,              \* the command line, None for a programmatic use of the class
    debug,             \* pipeline's debug parameter
    table,             \* the rows of column "text" of data.csv
    cudaAvailable,     \* what torch.cuda.is_available() answers
    source_csv,        \* __init__ parameters
    source_col,
    dest_csv,
    cuda,
    sentences,         \* self.sentences, None until loaded
    self_cuda,         \* self.cuda
    model,             \* self.model
    self_dest_csv,     \* self.dest_csv
    counter_sentences, \* self.counter_sentences
    pc,                \* position in the script
    idx,               \* number of sentences the for loop has taken
    perturbations,     \* the local of generate_counterfactuals
    calls,             \* history: the model.perturb calls made
    returns,           \* history: the candidate lists the calls returned
    loadAttempted,     \* history: pd.read_csv(...)[source_col] was evaluated
    console,           \* what was printed
    destFile,          \* the destination file, None while not written
    exitStatus,        \* the process's exit status, None while running
    fault              \* the uncaught exception, None if none

vars == <<argv, debug, table, cudaAvailable, source_csv, source_col, dest_csv, cuda,
          sentences, self_cuda, model, self_dest_csv, counter_sentences, pc, idx,
          perturbations, calls, returns, loadAttempted, console, destFile, exitStatus, fault>>

env == <<argv, debug, table, cudaAvailable>>
params == <<source_csv, source_col, dest_csv, cuda>>
fields == <<sentences, self_cuda, model, self_dest_csv, counter_sentences>>
locals == <<idx, perturbations>>
history == <<calls, returns, loadAttempted>>
outcome == <<console, destFile, exitStatus, fault>>

\* ------------------------------------------------------------- helpers
Line(tag, a, b) == [tag |-> tag, a |-> a, b |-> b]

\* process termination by exit(status): lines 28, 31, 34 and the end of the script
Exit(status, printed) ==
    /\ pc' = "exit"
    /\ exitStatus' = Some(status)
    /\ console' = console \o printed
    /\ UNCHANGED <<destFile, fault>>

\* an exception nobody catches: traceback, exit status 1
Raise(exception, printed) ==
    /\ pc' = "exit"
    /\ exitStatus' = Some(1)
    /\ fault' = Some(exception)
    /\ console' = console \o printed
    /\ UNCHANGED destFile

\* ---------------------------------------------------------------- Init
Namespaces ==
    [source_csv : {None} \cup {Some(p) : p \in PathArgs},
     source_col : {None} \cup {Some(c) : c \in ColArgs},
     dest_csv : {None} \cup {Some(d) : d \in DestArgs},
     cuda : BOOLEAN]

Init ==
    /\ table \in Tables
    /\ cudaAvailable \in BOOLEAN
    /\ \/ \* the script run from the command line
          /\ argv \in {Some(a) : a \in Namespaces}
          /\ debug = FALSE
          /\ source_csv = None /\ source_col = None /\ dest_csv = None /\ cuda = None
          /\ pc = "parse_input"
       \/ \* PolyjuiceGenerator(...).pipeline(debug) called by a program
          /\ argv = None
          /\ debug \in BOOLEAN
          /\ source_csv \in {None} \cup {Some(p) : p \in PathArgs}
          /\ source_col \in {None} \cup {Some(c) : c \in ColArgs}
          /\ dest_csv \in {None} \cup {Some(d) : d \in DestArgs}
          /\ cuda \in {None, Some(TRUE), Some(FALSE)}
          /\ pc = "init_source_csv"
    /\ sentences = None /\ self_cuda = None /\ model = None
    /\ self_dest_csv = None /\ counter_sentences = None
    /\ idx = 0 /\ perturbations = <<>>
    /\ calls = <<>> /\ returns = <<>> /\ loadAttempted = FALSE
    /\ console = <<>> /\ destFile = None /\ exitStatus = None /\ fault = None

\* ---------------------------------------------------- parse_input, main
\* argparse: -s and -c are required=True, a missing one ends the process with status 2
RequiredGiven(a) == a.source_csv # None /\ a.source_col # None

\* --cuda is action='store_true': the parsed value is a boolean, never None
ParsedCuda(a) == Some(a.cuda)

ParseInput ==
    /\ pc = "parse_input"
    /\ IF RequiredGiven(Val(argv))
       THEN pc' = "main" /\ UNCHANGED outcome
       ELSE Exit(2, <<Line("usage", "", "")>>)
    /\ UNCHANGED <<env, params, fields, locals, history>>

Main ==
    /\ pc = "main"
    /\ source_csv' = Val(argv).source_csv
    /\ source_col' = Val(argv).source_col
    /\ dest_csv' = Val(argv).dest_csv
    /\ cuda' = ParsedCuda(Val(argv))
    /\ pc' = "init_source_csv"
    /\ UNCHANGED <<env, fields, locals, history, outcome>>

\* ------------------------------------------------------------ __init__
SourceCsvUnset(p) == p = None

\* a variant whose existence check never fails
PathExistsAlways(p) == TRUE

\* os.path.exists(source_csv)
PathExists(p) == Val(p) \in ExistingFiles

\* a variant whose column check never fails
SourceColUnsetNever(c) == FALSE

SourceColUnset(c) == c = None

InitSourceCsv ==
    /\ pc = "init_source_csv"
    /\ IF SourceCsvUnset(source_csv)
       THEN Exit(1, <<Line("error", "source_csv must be specified", "")>>)
       ELSE pc' = "init_exists" /\ UNCHANGED outcome
    /\ UNCHANGED <<env, params, fields, locals, history>>

InitExists ==
    /\ pc = "init_exists"
    /\ IF ~PathExists(source_csv)
       THEN Exit(1, <<Line("error", "file does not exist", Val(source_csv))>>)
       ELSE pc' = "init_source_col" /\ UNCHANGED outcome
    /\ UNCHANGED <<env, params, fields, locals, history>>

InitSourceCol ==
    /\ pc = "init_source_col"
    /\ IF SourceColUnset(source_col)
       THEN Exit(1, <<Line("error", "source_col must be specified", "")>>)
       ELSE pc' = "init_read" /\ UNCHANGED outcome
    /\ UNCHANGED <<env, params, fields, locals, history>>

\* pd.read_csv(source_csv)[source_col].tolist(): the exception it raises, None if none
ReadCsvFault(p, c) ==
    IF p = None THEN Some("ValueError")
    ELSE IF Val(p) \notin ExistingFiles THEN Some("FileNotFoundError")
    ELSE IF c = None \/ Val(c) \notin TableColumns THEN Some("KeyError")
    ELSE None

InitRead ==
    /\ pc = "init_read"
    /\ loadAttempted' = TRUE
    /\ IF ReadCsvFault(source_csv, source_col) # None
       THEN Raise(Val(ReadCsvFault(source_csv, source_col)), <<>>) /\ UNCHANGED sentences
       ELSE sentences' = Some(table) /\ pc' = "init_model" /\ UNCHANGED outcome
    /\ UNCHANGED <<env, params, self_cuda, model, self_dest_csv, counter_sentences,
                   locals, calls, returns>>

SelectDevice(flag, available) == IF flag = None THEN available ELSE Val(flag)

DefaultDest(d) == IF d = None THEN "polyjuice_edits.csv" ELSE Val(d)

\* a variant that starts with an empty list
InitialCounterSentencesEmpty == Some(<<>>)

\* self.counter_sentences = None
InitialCounterSentences == None

InitModel ==
    /\ pc = "init_model"
    /\ self_cuda' = Some(SelectDevice(cuda, cudaAvailable))
    /\ model' = Some([model_path |-> "uw-hai/polyjuice",
                      is_cuda |-> SelectDevice(cuda, cudaAvailable)])
    /\ self_dest_csv' = Some(DefaultDest(dest_csv))
    /\ counter_sentences' = InitialCounterSentences
    /\ pc' = "pipeline"
    /\ UNCHANGED <<env, params, sentences, locals, history, outcome>>

\* ---------------------------------------------- generate_counterfactuals
Pipeline ==
    /\ pc = "pipeline"
    /\ pc' = "generate"
    /\ UNCHANGED <<env, params, fields, locals, history, outcome>>

GenerateStart ==
    /\ pc = "generate"
    /\ console' = Append(console, Line("info", "Generating Counterfactuals...", ""))
    /\ idx' = 0
    /\ pc' = "loop"
    /\ UNCHANGED <<env, params, fields, perturbations, history, destFile, exitStatus, fault>>

\* for s in tqdm(self.sentences): take the next sentence or leave the loop
LoopNext ==
    /\ pc = "loop"
    /\ IF idx < Len(Val(sentences))
       THEN idx' = idx + 1 /\ pc' = "perturb"
       ELSE idx' = idx /\ pc' = "generate_return"
    /\ UNCHANGED <<env, params, fields, perturbations, history, outcome>>

\* the sentence s of the current iteration
CurrentSentence == Val(sentences)[idx]

PerturbCall(s) == [text |-> s, num_perturbations |-> 1]

\* a variant that catches the exception and goes on with the next sentence
OnPerturbRaiseSwallowed ==
    /\ pc' = "loop"
    /\ UNCHANGED <<idx, perturbations, outcome>>

\* self.model.perturb raised: nothing catches it
OnPerturbRaise ==
    /\ Raise("ModelError", <<>>)
    /\ UNCHANGED <<idx, perturbations>>

\* self.model.perturb(s, num_perturbations=1): a list of candidates, or an exception
Perturb ==
    /\ pc = "perturb"
    /\ calls' = Append(calls, PerturbCall(CurrentSentence))
    /\ \/ /\ \E r \in Candidates : perturbations' = r /\ returns' = Append(returns, r)
          /\ pc' = "append"
          /\ UNCHANGED <<idx, outcome>>
       \/ OnPerturbRaise /\ UNCHANGED returns
    /\ UNCHANGED <<env, params, fields, loadAttempted>>

\* perturbations[0] if perturbations else s
SelectEdit(candidates, s) == IF candidates # <<>> THEN candidates[1] ELSE s

\* self.counter_sentences.append(...): None has no append
AppendCounter ==
    /\ pc = "append"
    /\ IF counter_sentences = None
       THEN Raise("AttributeError", <<>>) /\ UNCHANGED counter_sentences
       ELSE /\ counter_sentences' =
                  Some(Append(Val(counter_sentences), SelectEdit(perturbations, CurrentSentence)))
            /\ pc' = "loop"
            /\ UNCHANGED outcome
    /\ UNCHANGED <<env, params, sentences, self_cuda, model, self_dest_csv, locals, history>>

\* return self, back in pipeline: line 76 in debug mode, line 81 otherwise
GenerateReturn ==
    /\ pc = "generate_return"
    /\ pc' = IF debug THEN "debug_print" ELSE "export"
    /\ UNCHANGED <<env, params, fields, locals, history, outcome>>

\* ------------------------------------------- export_to_csv, pipeline end
\* pipeline returned: main prints the run time and the script ends, a caller goes on
PipelineReturn(printed) ==
    IF argv # None
    THEN /\ pc' = "exit"
         /\ exitStatus' = Some(0)
         /\ console' = console \o printed \o <<Line("time", "Script execution time", "")>>
         /\ UNCHANGED fault
    ELSE /\ pc' = "returned"
         /\ console' = console \o printed
         /\ UNCHANGED <<exitStatus, fault>>

\* pd.DataFrame({'counter_sents': None}) is a frame of scalars without an index: ValueError
ExportToCsv ==
    /\ pc = "export"
    /\ IF counter_sentences = None
       THEN Raise("ValueError", <<Line("info", "Exporting counterfactuals", Val(self_dest_csv))>>)
       ELSE /\ destFile' = Some([path |-> Val(self_dest_csv),
                                 columns |-> <<"counter_sents">>,
                                 rows |-> Val(counter_sentences)])
            /\ PipelineReturn(<<Line("info", "Exporting counterfactuals", Val(self_dest_csv))>>)
    /\ UNCHANGED <<env, params, fields, locals, history>>

Min(a, b) == IF a < b THEN a ELSE b

\* zip(a, b): pairs up to the shorter one
Zip(a, b) == [i \in 1..Min(Len(a), Len(b)) |-> Line("pair", a[i], b[i])]

\* zip(self.sentences, None) raises TypeError before anything is printed
DebugPrint ==
    /\ pc = "debug_print"
    /\ IF counter_sentences = None
       THEN Raise("TypeError", <<>>)
       ELSE PipelineReturn(Zip(Val(sentences), Val(counter_sentences))) /\ UNCHANGED destFile
    /\ UNCHANGED <<env, params, fields, locals, history>>

\* ------------------------------------------------------- specification
Next ==
    \/ ParseInput
    \/ Main
    \/ InitSourceCsv
    \/ InitExists
    \/ InitSourceCol
    \/ InitRead
    \/ InitModel
    \/ Pipeline
    \/ GenerateStart
    \/ LoopNext
    \/ Perturb
    \/ AppendCounter
    \/ GenerateReturn
    \/ ExportToCsv
    \/ DebugPrint

Spec == Init /\ [][Next]_vars

TypeOK ==
    /\ pc \in {"parse_input", "main", "init_source_csv", "init_exists", "init_source_col",
               "init_read", "init_model", "pipeline", "generate", "loop", "perturb",
               "append", "generate_return", "export", "debug_print", "returned", "exit"}
    /\ idx \in 0..MaxRows
    /\ loadAttempted \in BOOLEAN
    /\ Len(returns) <= Len(calls)

\* ------------------------------------------------------------ vocabulary
Terminated == pc \in {"exit", "returned"}

\* __init__ was entered: the command line, if any, got past argparse
ConstructEntered == pc \notin {"parse_input", "main"} /\ exitStatus # Some(2)

SourceUsable == source_csv # None /\ Val(source_csv) \in ExistingFiles

ColumnPresent == source_col # None /\ Val(source_col) \in TableColumns

ValidInput == ConstructEntered /\ SourceUsable /\ ColumnPresent

Printed(tag, a) == \E i \in DOMAIN console : console[i].tag = tag /\ console[i].a = a

ErrorReported == \E i \in DOMAIN console : console[i].tag = "error"

GenerateEntered == Printed("info", "Generating Counterfactuals...")

ExportEntered == Printed("info", "Exporting counterfactuals")

GenerateOver ==
    GenerateEntered /\ pc \in {"generate_return", "export", "debug_print", "returned", "exit"}

\* a model call raised: it is in calls and has no entry in returns
ModelRaised == Len(calls) > Len(returns)

\* every sentence got its list of candidates from the model
AllReturned == sentences # None /\ Len(returns) = Len(Val(sentences))

\* what the spec's selectEdit gives for input i
ExpectedEdit(i) == SelectEdit(returns[i], Val(sentences)[i])

PrintedPairs == SelectSeq(console, LAMBDA l : l.tag = "pair")

\* ---------------------------------------------------------------- C1
\* C1: a normal-mode pipeline run on a valid input (the model returning a list
\* for every call) ends with a destination table of one column counter_sents
\* that has as many rows as the input, the i-th row being the edit of input i.
C1_OutputMatchesInput ==
    (Terminated /\ ValidInput /\ ~debug /\ ~ModelRaised) =>
        /\ destFile # None
        /\ Val(destFile).columns = <<"counter_sents">>
        /\ Len(Val(destFile).rows) = Len(table)
        /\ AllReturned
        /\ \A i \in 1..Len(table) : Val(destFile).rows[i] = ExpectedEdit(i)

\* ---------------------------------------------------------------- C2
\* C2: once generate_counterfactuals is over (the model returning a list for
\* every call), for every input position i the output at i is the first
\* candidate the model returned for input i, or input i if it returned none.
C2_OutputsSelected ==
    (GenerateOver /\ ~ModelRaised) =>
        \A i \in 1..Len(Val(sentences)) :
            /\ counter_sentences # None
            /\ i <= Len(Val(counter_sentences))
            /\ i <= Len(returns)
            /\ Val(counter_sentences)[i] = ExpectedEdit(i)

\* ---------------------------------------------------------------- C3
SourceUnusable == ConstructEntered /\ ~SourceUsable

\* C3: with source_csv unset or naming no existing file, __init__ prints an
\* error and ends the process with status 1 before the table is read, before
\* the model is built and before generation or export: no file is written.
C3_MissingSourceExits ==
    SourceUnusable =>
        /\ pc \in {"init_source_csv", "init_exists", "exit"}
        /\ ~loadAttempted /\ sentences = None
        /\ model = None
        /\ calls = <<>> /\ ~GenerateEntered /\ ~ExportEntered
        /\ destFile = None
        /\ pc = "exit" => (exitStatus = Some(1) /\ fault = None /\ ErrorReported)

C3_Witness ==
    /\ SourceUnusable /\ pc = "exit"
    /\ source_csv # None
    /\ console = <<Line("error", "file does not exist", "missing.csv")>>

\* ---------------------------------------------------------------- C4
ColumnRejected ==
    /\ ~loadAttempted /\ sentences = None
    /\ destFile = None
    /\ pc \in {"init_source_csv", "init_exists", "init_source_col", "exit"}
    /\ pc = "exit" => (exitStatus = Some(1) /\ fault = None /\ ErrorReported)

\* C4 as stated: with source_col unset or the empty string (and a usable
\* source file), __init__ prints an error and ends the process with status 1
\* without trying to read the column and without writing a file.
C4_EmptyColumnRejected ==
    (ConstructEntered /\ SourceUsable /\ source_col \in {None, Some("")}) => ColumnRejected

\* C4 amended: only an unset source_col is rejected that way; the empty string
\* passes validation, the column read is tried and fails with KeyError.
C4_UnsetColumnRejected ==
    /\ (ConstructEntered /\ SourceUsable /\ source_col = None) => ColumnRejected
    /\ (ConstructEntered /\ SourceUsable /\ source_col = Some("") /\ pc = "exit") =>
           (loadAttempted /\ fault = Some("KeyError") /\ ~ErrorReported /\ destFile = None)

C4_Witness ==
    /\ ConstructEntered /\ SourceUsable /\ source_col = None /\ pc = "exit"
    /\ console = <<Line("error", "source_col must be specified", "")>>

\* ---------------------------------------------------------------- C5
\* C5: in normal mode export starts only when generation has gone over all
\* inputs, and a run on a valid input does export; in debug mode the
\* destination file is never written and the run prints one
\* (original, edited) pair per input, in input order.
C5_ModesRunInOrder ==
    /\ pc = "export" => (~debug /\ idx = Len(Val(sentences)) /\ AllReturned)
    /\ (Terminated /\ ValidInput /\ ~debug /\ ~ModelRaised) => ExportEntered
    /\ debug => (destFile = None /\ ~ExportEntered)
    /\ (Terminated /\ ValidInput /\ debug /\ ~ModelRaised) =>
           /\ AllReturned
           /\ PrintedPairs = [i \in 1..Len(Val(sentences)) |->
                                 Line("pair", Val(sentences)[i], ExpectedEdit(i))]

\* ---------------------------------------------------------------- C6
\* C6: a command-line run with an existing source file that has the column
\* ends with the file exported, the run time printed and exit status 0;
\* status 1 only comes with missing or invalid required inputs.
C6_ValidRunExitsZero ==
    /\ (argv # None /\ ValidInput /\ pc = "exit" /\ ~ModelRaised) =>
           /\ exitStatus = Some(0)
           /\ destFile # None
           /\ Printed("time", "Script execution time")
    /\ (argv # None /\ exitStatus = Some(1) /\ ~ModelRaised) => ~ValidInput

\* ---------------------------------------------------------------- C7
\* the accelerator flag the caller gave, None if none was given
ExplicitFlag ==
    IF argv = None THEN cuda
    ELSE IF Val(argv).cuda THEN Some(TRUE) ELSE None

\* C7: the model is bound to the explicit accelerator flag when one was given
\* and to the detected availability otherwise; a command line without --cuda
\* gets the detected availability.
C7_DeviceAutoDetected ==
    model # None =>
        Val(model).is_cuda = (IF ExplicitFlag # None THEN Val(ExplicitFlag) ELSE cudaAvailable)

\* ---------------------------------------------------------------- C8
\* C8: one generate_counterfactuals call over n inputs calls the model n
\* times, once per input in input order, asking for one perturbation each.
C8_OneCallPerInput ==
    (GenerateOver /\ ~ModelRaised) =>
        calls = [i \in 1..Len(Val(sentences)) |->
                    [text |-> Val(sentences)[i], num_perturbations |-> 1]]

\* ---------------------------------------------------------------- C9
\* C9: a model call that raises is not caught: the process ends there with the
\* exception, the raising call is the last call made, export is never entered
\* and the destination file is not written.
C9_ModelFaultPropagates ==
    ModelRaised =>
        /\ pc = "exit" /\ fault = Some("ModelError") /\ exitStatus = Some(1)
        /\ Len(calls) = Len(returns) + 1
        /\ Len(calls) = idx
        /\ ~ExportEntered /\ destFile = None

C9_Witness ==
    /\ ModelRaised /\ pc = "exit"
    /\ Len(Val(sentences)) > Len(calls)

\* --------------------------------------------------------------- C10
\* C10: counter_sentences never holds a list; so generation over a non-empty
\* input, the first model call having returned, ends in the AttributeError of
\* the first append: one model call made, no output recorded, nothing exported.
C10_AppendOnNoneFaults ==
    /\ counter_sentences = None
    /\ pc \in {"generate_return", "export", "debug_print", "returned"} => Val(sentences) = <<>>
    /\ (GenerateOver /\ Val(sentences) # <<>> /\ ~ModelRaised) =>
           /\ pc = "exit" /\ fault = Some("AttributeError")
           /\ Len(calls) = 1 /\ Len(returns) = 1 /\ idx = 1
           /\ ~ExportEntered /\ destFile = None

C10_Witness ==
    /\ fault = Some("AttributeError")
    /\ Len(Val(sentences)) = MaxRows
    /\ calls = <<[text |-> Val(sentences)[1], num_perturbations |-> 1]>>

====
